---- MODULE Spec2Model ----
(***************************************************************************)
(* A model of packler's asset pipeline: the image stage, the stylesheet    *)
(* stage with its concurrent entry-point tasks, the build orchestrator,    *)
(* the manifest file, the deploy stage and the debounced watch loop.       *)
(*                                                                         *)
(* A path is a record [dir, file]: dir is the sequence of directory        *)
(* components and file is the file name as a sequence of characters, so    *)
(* that file_stem, extension and set_extension are computed on the name as *)
(* std::path computes them.  A u64 hash is a sequence of 16 hex digits     *)
(* (values 0..15), most significant first.  The content of a file is a     *)
(* natural number standing for its bytes.                                  *)
(***************************************************************************)
EXTENDS Integers, Sequences, FiniteSets, TLC

\* ------------------------------------------------------------------ bounds

\* Commands (process invocations) started in one behaviour.
MaxRuns == 2
\* Edits of source files made between commands in one behaviour.
MaxEdits == 1
\* File contents are 0..MaxBytes.
MaxBytes == 1
\* The clock of the watch loop runs from 0 to MaxTime seconds.
MaxTime == 6
\* Change notifications delivered in one behaviour of the watch loop.
MaxEvents == 3

\* --------------------------------------------------------------- sequences

Range(s) == {s[i] : i \in DOMAIN s}

IsPrefix(p, s) == Len(p) <= Len(s) /\ SubSeq(s, 1, Len(p)) = p

\* All orders in which the elements of the finite set S can be listed.
Perms(S) ==
    {s \in [1..Cardinality(S) -> S] : \A i, j \in DOMAIN s : i # j => s[i] # s[j]}

\* The function f without the arguments in D.
Without(f, D) == [x \in DOMAIN f \ D |-> f[x]]

\* The function f with f[x] set to v, x added to its domain when new.
Put(f, x, v) == [y \in DOMAIN f \cup {x} |-> IF y = x THEN v ELSE f[y]]

\* ------------------------------------------------------------ configuration

DEFAULT_ASSETS_DIR == <<"assets">>
DEFAULT_OUTPUT_DIR == <<"dist">>
DEFAULT_IMAGES_DIR == "images"
DEFAULT_SASS_DIR == "css"
DEFAULT_METADATA_FILENAME == <<"a","s","s","e","t","s",".","j","s","o","n">>
\* cargo's target directory
TargetDir == <<"target">>

assets_source_dir == DEFAULT_ASSETS_DIR
dist_dir == DEFAULT_OUTPUT_DIR

metadata_file == [dir |-> dist_dir, file |-> DEFAULT_METADATA_FILENAME]
source_image_dir == assets_source_dir \o <<DEFAULT_IMAGES_DIR>>
dist_image_dir == dist_dir \o <<DEFAULT_IMAGES_DIR>>
source_sass_dir == assets_source_dir \o <<DEFAULT_SASS_DIR>>
dist_sass_dir == dist_dir \o <<DEFAULT_SASS_DIR>>
intermediate_dir == TargetDir \o <<"packler", "sass">>

\* -------------------------------------------------------------------- paths

\* Path::join of a directory with a relative path.
Join(base, rel) == [dir |-> base \o rel.dir, file |-> rel.file]

\* Path::strip_prefix(base).unwrap(); every caller passes a prefix.
StripPrefix(p, base) ==
    [dir |-> SubSeq(p.dir, Len(base) + 1, Len(p.dir)), file |-> p.file]

\* Path::with_file_name / PathBuf::set_file_name
WithFileName(p, name) == [dir |-> p.dir, file |-> name]

\* Path::parent of a file path: its directory.
Parent(p) == p.dir

\* The position of the last '.' of a file name, 0 when it has none.
LastDot(name) ==
    LET dots == {i \in DOMAIN name : name[i] = "."}
    IN  IF dots = {} THEN 0 ELSE CHOOSE i \in dots : \A j \in dots : j <= i

\* Path::extension(): None (<<>> is "no extension", HasExtension says which)
\* when the name has no '.', or only a leading one.
HasExtension(name) == LastDot(name) > 1

Extension(name) == SubSeq(name, LastDot(name) + 1, Len(name))

\* Path::file_prefix(): the name up to its first '.'.
FilePrefix(name) ==
    LET dots == {i \in DOMAIN name : name[i] = "."}
        first == IF dots = {} THEN 0 ELSE CHOOSE i \in dots : \A j \in dots : i <= j
    IN  IF first > 1 THEN SubSeq(name, 1, first - 1) ELSE name

\* Path::file_stem(): the name up to its last '.', the whole name when it
\* has no extension.
FileStem(name) ==
    IF HasExtension(name) THEN SubSeq(name, 1, LastDot(name) - 1) ELSE name

\* Bytes of a file name that are not valid UTF-8 (0xFE, 0xFF), and U+FFFD.
InvalidBytes == {"0xFE", "0xFF"}

ReplacementCharacter == "U+FFFD"

\* OsStr::to_string_lossy: every invalid byte becomes U+FFFD.
ToStringLossy(name) ==
    [i \in DOMAIN name |->
        IF name[i] \in InvalidBytes THEN ReplacementCharacter ELSE name[i]]

\* Path::to_str(): None when the path holds an invalid byte (the
\* directories of the model have none).
IsUtf8(p) == \A i \in DOMAIN p.file : p.file[i] \notin InvalidBytes

\* PathBuf::set_extension(ext)
SetExtension(p, ext) == WithFileName(p, FileStem(p.file) \o <<".">> \o ext)

\* ------------------------------------------------------------- fingerprint

HexChars ==
    <<"0","1","2","3","4","5","6","7","8","9","a","b","c","d","e","f">>

\* seahash::hash of a content: a fixed function of the bytes, one to one on
\* the contents of the model (equal last digits only for equal contents
\* below 16), with leading zero digits for the odd contents.
SeaHash(bytes) ==
    [i \in 1..16 |->
        IF bytes % 2 = 1 /\ i <= 12 THEN 0 ELSE (bytes * (i + 1) + 3 * i) % 16]

\* format!("{:x}", hash): lower-case hex without leading zeros, "0" for 0.
FormatHex(hash) ==
    LET nz == {i \in 1..16 : hash[i] # 0}
        first == IF nz = {} THEN 16 ELSE CHOOSE i \in nz : \A j \in nz : i <= j
    IN  [k \in 1..(17 - first) |-> HexChars[hash[first + k - 1] + 1]]

\* format!("{}-{:x}.{}", stem, hash, ext)
HashedName(stem, hash, ext) == stem \o <<"-">> \o FormatHex(hash) \o <<".">> \o ext

\* -------------------------------------------------------------------- state

VARIABLES
    \* the filesystem: the regular files (path -> content), the directories,
    \* the files whose content cannot be read, and dist/assets.json (NoManifest
    \* or the document written by write_metadata_file)
    files, dirs, unreadable, manifest,
    \* the bucket (key -> content), whether the running command's
    \* put_bucket_cors was answered Ok, and the requests the command sent
    bucket, cors, requests,
    \* PacklerParams: sass_entrypoints, static_bucket_name
    sass_entrypoints, static_bucket_name,
    \* Run: action, BuildOpts.watch, components and the component loop's index
    action, watch, components, compIdx,
    \* where the running command stands
    pc,
    \* images::process: the collected records and the copy loop's index
    images, copyIdx,
    \* SassRun::start: one entry-point task per future given to join_all
    tasks,
    \* build_assets_inner's AssetsOutput, and upload_assets' loop index
    metadata, upIdx,
    \* the watch loop: latest_run, the channel rx, whether the loop is entered
    latest_run, queue, watching,
    \* the clock, and the builds that build_assets is running
    now, activeBuilds,
    \* history: the commands started, the source edits made, the change
    \* events handled so far, and whether sass::process returned Err
    runs, edits, evlog, sassFailed

fsVars == <<files, dirs, unreadable, manifest>>
netVars == <<bucket, cors, requests>>
paramVars == <<sass_entrypoints, static_bucket_name>>
imgVars == <<images, copyIdx>>
watchVars == <<latest_run, queue, watching, now, evlog>>
histVars == <<runs, edits>>

vars ==
    <<files, dirs, unreadable, manifest, bucket, cors, requests, sass_entrypoints,
      static_bucket_name, action, watch, components, compIdx, pc, images,
      copyIdx, tasks, metadata, upIdx, latest_run, queue, watching, now,
      activeBuilds, runs, edits, evlog, sassFailed>>

\* --------------------------------------------------------------- filesystem

\* Every directory on the way to d, d included, the root excluded.
Ancestors(d) == {SubSeq(d, 1, n) : n \in 1..Len(d)}

\* std::fs::create_dir_all(d)
CreateDirAll(ds, d) == ds \cup Ancestors(d)

\* Path::exists / Path::is_file of a file path
FileExists(fs, p) == p \in DOMAIN fs

\* std::fs::remove_dir_all(d): d, and every file and directory below it
RemoveDirFiles(fs, d) == Without(fs, {p \in DOMAIN fs : IsPrefix(d, p.dir)})

RemoveDirDirs(ds, d) == {x \in ds : ~IsPrefix(d, x)}

\* The files of fs below directory d.
FilesUnder(fs, d) == {p \in DOMAIN fs : IsPrefix(d, p.dir)}

\* ------------------------------------------------------------- source tree

\* assets/images/logo.png
LogoPng ==
    [dir |-> source_image_dir, file |-> <<"l","o","g","o",".","p","n","g">>]
\* assets/images/sub/a.b.png: a nested directory and a name with two dots
NestedPng ==
    [dir |-> source_image_dir \o <<"sub">>,
     file |-> <<"a",".","b",".","p","n","g">>]

\* assets/images/LICENSE: a name without extension
Licence ==
    [dir |-> source_image_dir, file |-> <<"L","I","C","E","N","S","E">>]
\* assets/images/logo.png~: an extension no MIME type is known for
BackupPng ==
    [dir |-> source_image_dir, file |-> <<"l","o","g","o",".","p","n","g","~">>]

\* assets/images/a<0xFF>.png and assets/images/a<0xFE>.png: two names that
\* differ in one byte, neither valid UTF-8
IconFF ==
    [dir |-> source_image_dir, file |-> <<"a","0xFF",".","p","n","g">>]
IconFE ==
    [dir |-> source_image_dir, file |-> <<"a","0xFE",".","p","n","g">>]

\* Entry points, relative to assets/css.
MainScss == [dir |-> <<>>, file |-> <<"m","a","i","n",".","s","c","s","s">>]
\* main.sass compiles to the same intermediate file as main.scss
MainSass == [dir |-> <<>>, file |-> <<"m","a","i","n",".","s","a","s","s">>]
\* an entry point whose source file is never there
MissingScss == [dir |-> <<>>, file |-> <<"g","o","n","e",".","s","c","s","s">>]

\* ------------------------------------------------------------- image stage

\* A record whose name carries the hash of the empty content, whatever the file holds.
ImageMetadataFixedHash(path, hash) ==
    LET relative_path == StripPrefix(path, assets_source_dir)
        hashed_name ==
            HashedName(FileStem(relative_path.file), SeaHash(0),
                       Extension(relative_path.file))
    IN  [source_path |-> path,
         logical_path |-> relative_path,
         processed_relative_path |-> WithFileName(relative_path, hashed_name),
         hash |-> hash]

\* AssetMetadata of a file at `path` (under assets_source_dir) with `hash`.
ImageMetadata(path, hash) ==
    LET relative_path == StripPrefix(path, assets_source_dir)
        hashed_name ==
            HashedName(ToStringLossy(FileStem(relative_path.file)), hash,
                       ToStringLossy(Extension(relative_path.file)))
    IN  [source_path |-> path,
         logical_path |-> relative_path,
         processed_relative_path |-> WithFileName(relative_path, hashed_name),
         hash |-> hash]

\* The entries WalkDir can yield below a directory: a directory entry for
\* each directory (file = <<>>), a file entry for each file.
DirEntry(d) == [kind |-> "dir", dir |-> d, file |-> <<>>]
FileEntry(p) == [kind |-> "file", dir |-> p.dir, file |-> p.file]
ErrEntry == [kind |-> "err", dir |-> <<>>, file |-> <<>>]

EntryParent(e) ==
    IF e.kind = "dir" THEN SubSeq(e.dir, 1, Len(e.dir) - 1) ELSE e.dir

\* e lies below directory d.
Below(e, d) == IsPrefix(d, e.dir) /\ e # DirEntry(d)

\* WalkDir::new(root).into_iter(): an error when root cannot be read; else
\* root, then everything below it depth first, each directory right before
\* its own content, siblings in the order read_dir happens to give.
WalkDir(fs, ds, root) ==
    IF root \notin ds THEN {<<ErrEntry>>}
    ELSE
        LET E == {DirEntry(d) : d \in {x \in ds : IsPrefix(root, x)}}
                  \cup {FileEntry(p) : p \in FilesUnder(fs, root)}
        IN  {s \in Perms(E) :
                /\ s[1] = DirEntry(root)
                /\ \A i \in 2..Len(s) :
                    \E j \in 1..(i - 1) :
                        /\ s[j] = DirEntry(EntryParent(s[i]))
                        /\ \A k \in (j + 1)..i : Below(s[k], s[j].dir)}

\* The closure given to filter_map: Some(record), None, or a panic (the
\* unwrap of a failed read, or of the extension of a name without one).
ProcessEntry(fs, unread, e) ==
    LET path == [dir |-> e.dir, file |-> e.file]
        none == [tag |-> "none", rec |-> <<>>]
    IN  IF e.kind # "file" THEN none
        ELSE IF path \in unread \/ ~HasExtension(e.file)
             THEN [tag |-> "panic", rec |-> <<>>]
             ELSE [tag |-> "some", rec |-> <<ImageMetadata(path, SeaHash(fs[path]))>>]

IsSome(o) == o.tag = "some"

\* The records collected from a walk, or the panic of one of its entries.
CollectImages(fs, unread, walk) ==
    LET outs == [i \in DOMAIN walk |-> ProcessEntry(fs, unread, walk[i])]
        some == SelectSeq(outs, IsSome)
    IN  [panic |-> \E i \in DOMAIN outs : outs[i].tag = "panic",
         recs |-> [k \in 1..Len(some) |-> some[k].rec[1]]]

\* A clean that leaves every file where it is.
KeepFiles(fs, ds) == fs

\* images::clean_dist_dir
CleanImagesFiles(fs, ds) ==
    IF dist_image_dir \in ds THEN RemoveDirFiles(fs, dist_image_dir) ELSE fs

CleanImagesDirs(ds) ==
    IF dist_image_dir \in ds THEN RemoveDirDirs(ds, dist_image_dir) ELSE ds

\* sass::clean_dist_dir
CleanSassFiles(fs, ds) ==
    IF dist_sass_dir \in ds THEN RemoveDirFiles(fs, dist_sass_dir) ELSE fs

CleanSassDirs(ds) ==
    IF dist_sass_dir \in ds THEN RemoveDirDirs(ds, dist_sass_dir) ELSE ds

\* ------------------------------------------------------------------ control

Terminated == pc \in {"idle", "exited", "panicked"}

\* The end of one iteration of `for component in &self.components`.
NextComponent == /\ compIdx' = compIdx + 1
                 /\ pc' = "dispatch"

\* A panic ends the process where it stands.
Panic == pc' = "panicked"

cmdVars == <<action, watch, components>>

EmptyOutput == [images |-> <<>>, sass |-> <<>>]

NoManifest == [exists |-> FALSE, images |-> <<>>, sass |-> <<>>]

NoBucket == "none"

\* A deploy that takes any name, the missing one too, for a bucket.
HasBucketAlways == TRUE

\* `let Some(bucket_name) = &params.static_bucket_name`
HasBucket == static_bucket_name # NoBucket

\* An iteration that begins with the stylesheets.
ItemsSassFirst(md) == md.sass \o md.images

\* AssetsOutput::iter: the images, then the stylesheets
Items(md) == md.images \o md.sass

\* ----------------------------------------------------------- the image stage

\* images::process, the walk: every file below assets/images is read,
\* hashed and named; a failed read or a name without extension panics.
ImgCollect ==
    /\ pc = "img_collect"
    /\ \E walk \in WalkDir(files, dirs, source_image_dir) :
        LET c == CollectImages(files, unreadable, walk)
        IN  IF c.panic
            THEN Panic /\ images' = <<>>
            ELSE pc' = "img_clean" /\ images' = c.recs
    /\ UNCHANGED <<fsVars, netVars, paramVars, cmdVars, compIdx, copyIdx,
                   tasks, metadata, upIdx, watchVars, activeBuilds, histVars,
                   sassFailed>>

\* images::process, clean_dist_dir(config)
ImgClean ==
    /\ pc = "img_clean"
    /\ files' = CleanImagesFiles(files, dirs)
    /\ dirs' = CleanImagesDirs(dirs)
    /\ copyIdx' = 1
    /\ pc' = IF images = <<>> THEN "sass_start" ELSE "img_copy"
    /\ UNCHANGED <<unreadable, manifest, netVars, paramVars, cmdVars, compIdx,
                   images, tasks, metadata, upIdx, watchVars, activeBuilds,
                   histVars, sassFailed>>

\* std::fs::copy(from, to): fails when `from` is missing or unreadable.
CopyFails(fs, unread, from) == ~FileExists(fs, from) \/ from \in unread

\* images::process, one turn of the copy loop
ImgCopy ==
    /\ pc = "img_copy"
    /\ LET image == images[copyIdx]
           dest_path == Join(dist_dir, image.processed_relative_path)
       IN  /\ dirs' = CreateDirAll(dirs, Parent(dest_path))
           /\ IF CopyFails(files, unreadable, image.source_path)
              THEN /\ Panic
                   /\ UNCHANGED <<files, copyIdx>>
              ELSE /\ files' = Put(files, dest_path, files[image.source_path])
                   /\ copyIdx' = copyIdx + 1
                   /\ pc' = IF copyIdx = Len(images)
                            THEN "sass_start" ELSE "img_copy"
    /\ UNCHANGED <<unreadable, manifest, netVars, paramVars, cmdVars, compIdx,
                   images, tasks, metadata, upIdx, watchVars, activeBuilds,
                   histVars, sassFailed>>

\* ------------------------------------------------------ the stylesheet stage

Css == <<"c","s","s">>

\* The external compiler: the CSS it writes for a source of these bytes.
Compile(bytes) == bytes + 8

\* SassRun::run: the paths of an entry point
OriginalPath(entry) == Join(source_sass_dir, entry)

\* A compiler output written next to the source.
InPlaceCssPath(entry) == SetExtension(OriginalPath(entry), Css)

PrehashPath(entry) == SetExtension(Join(intermediate_dir, entry), Css)

FinalPath(entry, hash) ==
    WithFileName(Join(dist_sass_dir, entry),
                 HashedName(FileStem(OriginalPath(entry).file), hash, Css))

SassMetadata(entry, hash) ==
    [source_path |-> OriginalPath(entry),
     logical_path |-> StripPrefix(OriginalPath(entry), assets_source_dir),
     processed_relative_path |-> StripPrefix(FinalPath(entry, hash), dist_dir),
     hash |-> hash]

\* A future of SassRun::run before its first poll.
NewTask == [pc |-> "new", status |-> FALSE, css |-> 0, rec |-> <<>>]

TaskDone(t) == t.pc \in {"ok", "err"}

\* The sequence s1 \o s2 \o ... of a sequence of sequences.
RECURSIVE Flatten(_)
Flatten(ss) == IF ss = <<>> THEN <<>> ELSE Head(ss) \o Flatten(Tail(ss))

\* A collection that gives up every output when one result is an error.
OkOutputsOrNothing(ts) ==
    IF \E i \in DOMAIN ts : ts[i].pc = "err" THEN <<>>
    ELSE Flatten([i \in DOMAIN ts |-> ts[i].rec])

\* SassRun::start, the filter_map over the results: the Ok outputs, in order
OkOutputs(ts) == Flatten([i \in DOMAIN ts |-> IF ts[i].pc = "ok" THEN ts[i].rec ELSE <<>>])

\* Where the command goes once build_assets_inner has returned md:
\* build_assets writes the manifest; deploy_assets calls upload_assets,
\* which returns at once without a bucket and loops over the items with one.
AfterInner(md) ==
    IF action = "build" \/ ~HasBucket \/ Items(md) = <<>>
    THEN "write" ELSE "upload"

\* SassRun::start up to join_all: the compiler is resolved (an error makes
\* sass::process return Err, and build_assets_inner takes an empty list),
\* the scratch and dist/css directories are removed, one future per entry.
SassStart ==
    /\ pc = "sass_start"
    /\ \E resolved \in BOOLEAN :
        IF resolved
        THEN /\ files' = CleanSassFiles(RemoveDirFiles(files, intermediate_dir), dirs)
             /\ dirs' = CleanSassDirs(RemoveDirDirs(dirs, intermediate_dir))
             /\ tasks' = [i \in DOMAIN sass_entrypoints |-> NewTask]
             /\ pc' = "sass_join"
             /\ UNCHANGED <<metadata, upIdx, sassFailed>>
        ELSE /\ metadata' = [images |-> images, sass |-> <<>>]
             /\ sassFailed' = TRUE
             /\ upIdx' = 1
             /\ pc' = AfterInner(metadata')
             /\ UNCHANGED <<files, dirs, tasks>>
    /\ UNCHANGED <<unreadable, manifest, netVars, paramVars, cmdVars, compIdx,
                   imgVars, watchVars, activeBuilds, histVars>>

\* What every step of the stylesheet tasks leaves alone.
TaskFrame ==
    UNCHANGED <<unreadable, manifest, netVars, paramVars, cmdVars, compIdx,
                imgVars, metadata, upIdx, watchVars, activeBuilds, histVars,
                sassFailed>>

\* join_all polls its futures in order: a future is first polled once the
\* ones before it have been, and is polled again only after that first round.
AllPolled == \A j \in DOMAIN tasks : tasks[j].pc # "new"

\* copy and remove_file are one stretch of synchronous code: no other future
\* runs between them (the compiler processes do).
NoneCopying == \A j \in DOMAIN tasks : tasks[j].pc # "copied"

\* SassRun::run to its first await: a missing source is EntryPointDoesNotExist;
\* else the compiler is spawned, and a spawn failure is this entry's error.
RunStart(i) ==
    /\ pc = "sass_join"
    /\ tasks[i].pc = "new"
    /\ \A j \in 1..(i - 1) : tasks[j].pc # "new"
    /\ NoneCopying
    /\ IF ~FileExists(files, OriginalPath(sass_entrypoints[i]))
       THEN tasks' = [tasks EXCEPT ![i].pc = "err"]
       ELSE \E spawned \in BOOLEAN :
               tasks' = [tasks EXCEPT ![i].pc = IF spawned THEN "spawned" ELSE "err"]
    /\ UNCHANGED <<files, dirs, pc>>
    /\ TaskFrame

\* The compiler process of entry i ends: with status 0 it has written the
\* CSS of the source to the intermediate path, otherwise nothing.
CompilerExit(i) ==
    /\ pc = "sass_join"
    /\ tasks[i].pc = "spawned"
    /\ LET entry == sass_entrypoints[i]
       IN  \E success \in BOOLEAN :
            /\ tasks' = [tasks EXCEPT ![i].pc = "exited", ![i].status = success]
            /\ IF success /\ FileExists(files, OriginalPath(entry))
               THEN /\ files' = Put(files, PrehashPath(entry),
                                    Compile(files[OriginalPath(entry)]))
                    /\ dirs' = CreateDirAll(dirs, Parent(PrehashPath(entry)))
               ELSE UNCHANGED <<files, dirs>>
    /\ UNCHANGED pc
    /\ TaskFrame

\* A run_command that takes every exit status for a success.
StatusIgnored(t) == TRUE

\* run_command, status.success()
StatusSuccess(t) == t.status

\* run_command returns (an error for a bad status), then read_to_string of
\* the intermediate file (an error when it is not there).
RunRead(i) ==
    /\ pc = "sass_join"
    /\ tasks[i].pc = "exited"
    /\ AllPolled
    /\ NoneCopying
    /\ LET prehash_file_path == PrehashPath(sass_entrypoints[i])
       IN  IF StatusSuccess(tasks[i]) /\ FileExists(files, prehash_file_path)
           THEN tasks' = [tasks EXCEPT ![i].pc = "read",
                                       ![i].css = files[prehash_file_path]]
           ELSE tasks' = [tasks EXCEPT ![i].pc = "err"]
    /\ UNCHANGED <<files, dirs, pc>>
    /\ TaskFrame

\* The hash, create_dir_all of the final directory, and the copy of the
\* intermediate file to its final path (a panic when the copy fails).
RunCopy(i) ==
    /\ pc = "sass_join"
    /\ tasks[i].pc = "read"
    /\ NoneCopying
    /\ LET entry == sass_entrypoints[i]
           hash == SeaHash(tasks[i].css)
           final_file_path == FinalPath(entry, hash)
       IN  /\ dirs' = CreateDirAll(dirs, Parent(final_file_path))
           /\ IF CopyFails(files, unreadable, PrehashPath(entry))
              THEN /\ Panic
                   /\ tasks' = [tasks EXCEPT ![i].pc = "panic"]
                   /\ UNCHANGED files
              ELSE /\ files' = Put(files, final_file_path, files[PrehashPath(entry)])
                   /\ tasks' = [tasks EXCEPT ![i].pc = "copied"]
                   /\ UNCHANGED pc
    /\ TaskFrame

\* remove_file of the intermediate file (a panic when it fails), and the
\* AssetMetadata the future returns.
RunRemove(i) ==
    /\ pc = "sass_join"
    /\ tasks[i].pc = "copied"
    /\ LET entry == sass_entrypoints[i]
       IN  IF ~FileExists(files, PrehashPath(entry))
           THEN /\ Panic
                /\ tasks' = [tasks EXCEPT ![i].pc = "panic"]
                /\ UNCHANGED files
           ELSE /\ files' = Without(files, {PrehashPath(entry)})
                /\ tasks' = [tasks EXCEPT
                       ![i].pc = "ok",
                       ![i].rec = <<SassMetadata(entry, SeaHash(tasks[i].css))>>]
                /\ UNCHANGED pc
    /\ UNCHANGED dirs
    /\ TaskFrame

\* A join that is ready at the first error, as try_join_all is.
JoinReadyAtFirstError(ts) ==
    \/ \A i \in DOMAIN ts : TaskDone(ts[i])
    \/ \E i \in DOMAIN ts : ts[i].pc = "err"

\* join_all(futures).await is ready when every future is.
JoinReady(ts) == \A i \in DOMAIN ts : TaskDone(ts[i])

\* The Ok outputs are collected, sass::process and build_assets_inner
\* return the AssetsOutput.
SassJoin ==
    /\ pc = "sass_join"
    /\ JoinReady(tasks)
    /\ metadata' = [images |-> images, sass |-> OkOutputs(tasks)]
    /\ upIdx' = 1
    /\ pc' = AfterInner(metadata')
    /\ UNCHANGED <<fsVars, netVars, paramVars, cmdVars, compIdx, imgVars,
                   tasks, watchVars, activeBuilds, histVars, sassFailed>>

\* ------------------------------------------------------------ the manifest

\* A path written with its file name only.
PathFileName(p) == p.file

\* A PathBuf as a JSON string: the components, a separator after each
\* directory, and the characters of the file name.
PathToString(p) == Flatten([i \in DOMAIN p.dir |-> <<p.dir[i], "/">>]) \o p.file

\* The PathBuf of a JSON string: the file name is what follows the last
\* separator.
StringToPath(str) ==
    LET seps == {i \in DOMAIN str : str[i] = "/"}
        last == IF seps = {} THEN 0 ELSE CHOOSE i \in seps : \A j \in seps : j <= i
    IN  [dir |-> SelectSeq(SubSeq(str, 1, last), LAMBDA c : c # "/"),
         file |-> SubSeq(str, last + 1, Len(str))]

\* The serialized AssetMetadata: the hash is #[serde(skip)].
ToJson(r) ==
    [source_path |-> PathToString(r.source_path),
     logical_path |-> PathToString(r.logical_path),
     processed_relative_path |-> PathToString(r.processed_relative_path)]

\* The deserialized AssetMetadata: a skipped field takes u64::default().
FromJson(j) ==
    [source_path |-> StringToPath(j.source_path),
     logical_path |-> StringToPath(j.logical_path),
     processed_relative_path |-> StringToPath(j.processed_relative_path),
     hash |-> [i \in 1..16 |-> 0]]

\* serde_json::to_string_pretty(&metadata)
Serialize(md) ==
    [exists |-> TRUE,
     images |-> [i \in DOMAIN md.images |-> ToJson(md.images[i])],
     sass |-> [i \in DOMAIN md.sass |-> ToJson(md.sass[i])]]

\* The AssetsOutput read back from a document
Deserialize(doc) ==
    [images |-> [i \in DOMAIN doc.images |-> FromJson(doc.images[i])],
     sass |-> [i \in DOMAIN doc.sass |-> FromJson(doc.sass[i])]]

\* serde_json::to_string_pretty fails on a path that is not valid UTF-8.
SerializeFails(md) ==
    \E i \in DOMAIN Items(md) :
        \/ ~IsUtf8(Items(md)[i].source_path)
        \/ ~IsUtf8(Items(md)[i].logical_path)
        \/ ~IsUtf8(Items(md)[i].processed_relative_path)

\* File::create(out_path): fails when the directory of the file is missing.
CreateFails(ds, p) == Parent(p) \notin ds

\* Duration::from_secs(2)
Debounce == 2

\* A clock that never leaves the instant of the last trigger.
InstantFrozen == latest_run

\* Instant::now()
InstantNow == now

\* write_metadata_file, then what follows it: build_assets returns (to the
\* component loop, to the watch set-up after the first build of a watched
\* run, or to the watch loop, which sets latest_run); deploy_assets goes on
\* to the CORS configuration when a bucket is named.
WriteMetadata ==
    /\ pc = "write"
    /\ IF SerializeFails(metadata) \/ CreateFails(dirs, metadata_file)
       THEN /\ Panic
            /\ UNCHANGED <<manifest, compIdx, latest_run, activeBuilds>>
       ELSE /\ manifest' = Serialize(metadata)
            /\ IF action = "build"
               THEN /\ activeBuilds' = activeBuilds - 1
                    /\ IF ~watch
                       THEN NextComponent /\ UNCHANGED latest_run
                       ELSE IF ~watching
                            THEN pc' = "watch_setup" /\ UNCHANGED <<compIdx, latest_run>>
                            ELSE /\ pc' = "watch_recv"
                                 /\ latest_run' = InstantNow
                                 /\ UNCHANGED compIdx
               ELSE /\ IF HasBucket
                       THEN pc' = "cors" /\ UNCHANGED compIdx
                       ELSE NextComponent
                    /\ UNCHANGED <<latest_run, activeBuilds>>
    /\ UNCHANGED <<files, dirs, unreadable, netVars, paramVars, cmdVars,
                   imgVars, tasks, metadata, upIdx, queue, watching, now,
                   evlog, histVars, sassFailed>>

\* --------------------------------------------------------------- the deploy

Png == <<"p","n","g">>

\* A guess that falls back to a generic type.
MimeOrOctetStream(p) == <<"application/octet-stream">>

\* mime_guess::from_path(p).first_raw(): the MIME type of the extension,
\* <<>> when the extension is unknown or missing.
MimeGuess(p) ==
    IF ~HasExtension(p.file) THEN <<>>
    ELSE IF Extension(p.file) = Png THEN <<"image/png">>
    ELSE IF Extension(p.file) = Css THEN <<"text/css">>
    ELSE <<>>

PutObject(key, content_type, body) ==
    [method |-> "PUT", op |-> "PutObject", key |-> <<key>>,
     acl |-> "public-read", content_type |-> content_type, body |-> <<body>>]

PutBucketCors ==
    [method |-> "PUT", op |-> "PutBucketCors", key |-> <<>>,
     acl |-> "", content_type |-> <<>>, body |-> <<>>]

\* A loop that gives up at the first upload that fails.
UploadStopsOnError(sent) ==
    IF ~sent \/ upIdx = Len(Items(metadata)) THEN "write" ELSE "upload"

\* upload_assets, the end of one turn of the loop: Ok and Err of the upload
\* are both only logged, and the loop goes on to the next item.
UploadNext(sent) == IF upIdx = Len(Items(metadata)) THEN "write" ELSE "upload"

\* upload_assets, one turn of its loop: the MIME type and the file are
\* expected (a panic without them), the object is put under the processed
\* path, and a failed upload is only logged.
UploadAsset ==
    /\ pc = "upload"
    /\ LET item == Items(metadata)[upIdx]
           src == Join(dist_dir, item.processed_relative_path)
           mime_type == MimeGuess(src)
       IN  IF mime_type = <<>> \/ ~FileExists(files, src)
           THEN Panic /\ UNCHANGED <<bucket, requests, upIdx>>
           ELSE /\ requests' = Append(requests,
                        PutObject(item.processed_relative_path, mime_type, files[src]))
                /\ \E sent \in BOOLEAN :
                     /\ bucket' = IF sent
                                  THEN Put(bucket, item.processed_relative_path, files[src])
                                  ELSE bucket
                     /\ pc' = UploadNext(sent)
                /\ upIdx' = upIdx + 1
    /\ UNCHANGED <<fsVars, cors, paramVars, cmdVars, compIdx, imgVars, tasks,
                   metadata, watchVars, activeBuilds, histVars, sassFailed>>

\* send_cors: put_bucket_cors, whose failure is only logged
SendCors ==
    /\ pc = "cors"
    /\ requests' = Append(requests, PutBucketCors)
    /\ \E sent \in BOOLEAN : cors' = sent
    /\ NextComponent
    /\ UNCHANGED <<fsVars, bucket, paramVars, cmdVars, imgVars, tasks,
                   metadata, upIdx, watchVars, activeBuilds, histVars,
                   sassFailed>>

\* ---------------------------------------------------------------- the clean

\* clean_assets
CleanAssets ==
    /\ pc = "clean"
    /\ files' = CleanSassFiles(CleanImagesFiles(files, dirs), dirs)
    /\ dirs' = CleanSassDirs(CleanImagesDirs(dirs))
    /\ NextComponent
    /\ UNCHANGED <<unreadable, manifest, netVars, paramVars, cmdVars, imgVars,
                   tasks, metadata, upIdx, watchVars, activeBuilds, histVars,
                   sassFailed>>

\* ----------------------------------------------------------------- commands

Actions == {"build", "clean", "deploy"}

\* A default list that puts the assets first.
DefaultAssetsFirst == <<"assets", "backend">>

\* Run::new: no --components gives [Backend, Assets]
DefaultComponents == <<"backend", "assets">>

\* str::to_lowercase, on the names given to --components
ToLowercase(value) == IF value = "Assets" THEN "assets" ELSE value

\* Component::new: Ok(component) as <<component>>, Err(UnknownComponent) as <<>>
ComponentNew(value) ==
    IF ToLowercase(value) \in {"backend", "assets", "frontend"}
    THEN <<ToLowercase(value)>> ELSE <<>>

\* Run::new: the components of the command line, the names that
\* Component::new refuses left out; [Backend, Assets] without --components.
RunComponents(raw_components) ==
    IF raw_components = <<>> THEN DefaultComponents
    ELSE Flatten([i \in DOMAIN raw_components |-> ComponentNew(raw_components[i])])

\* A match that runs the assets arm for every component.
AllImplemented(component) == FALSE

\* Run::start, the arms of Component::Backend and Component::Frontend:
\* unimplemented!()
NotImplemented(component) == component # "assets"

\* A command is started: the process has nothing but its parameters.
Begin(a, w, comps) ==
    /\ Terminated
    /\ runs < MaxRuns
    /\ runs' = runs + 1
    /\ action' = a
    /\ watch' = w
    /\ components' = comps
    /\ compIdx' = 1
    /\ pc' = "dispatch"
    /\ requests' = <<>>
    /\ cors' = FALSE
    /\ images' = <<>>
    /\ copyIdx' = 1
    /\ tasks' = <<>>
    /\ metadata' = EmptyOutput
    /\ upIdx' = 1
    /\ queue' = <<>>
    /\ watching' = FALSE
    /\ activeBuilds' = 0
    /\ sassFailed' = FALSE
    /\ evlog' = <<>>
    /\ UNCHANGED <<fsVars, bucket, paramVars, latest_run, now, edits>>

\* Run::start, the head of the loop over the components: the loop ends, or
\* the component is not implemented, or the action runs for the assets.
Dispatch ==
    /\ pc = "dispatch"
    /\ IF compIdx > Len(components)
       THEN pc' = "exited" /\ UNCHANGED activeBuilds
       ELSE IF NotImplemented(components[compIdx])
       THEN Panic /\ UNCHANGED activeBuilds
       ELSE IF action = "clean"
       THEN pc' = "clean" /\ UNCHANGED activeBuilds
       ELSE /\ pc' = "img_collect"
            /\ activeBuilds' = IF action = "build" THEN activeBuilds + 1
                               ELSE activeBuilds
    /\ UNCHANGED <<fsVars, netVars, paramVars, cmdVars, compIdx, imgVars,
                   tasks, metadata, upIdx, watchVars, histVars, sassFailed>>

\* -------------------------------------------------------------- environment

\* assets/css/sub/print.scss
PrintScss ==
    [dir |-> <<"sub">>, file |-> <<"p","r","i","n","t",".","s","c","s","s">>]

\* The stylesheet sources of a list of entry points: every entry point but
\* MissingScss has its file.
SassSources(entries) == {OriginalPath(e) : e \in Range(entries) \ {MissingScss}}

\* The source tree with these images and the sources of these entry
\* points: main.sass differs from main.scss.
SourceTree(imgs, entries) ==
    [p \in imgs \cup SassSources(entries) |->
        IF p = OriginalPath(MainSass) THEN 1 ELSE 0]

DirsOf(fs) == UNION {Ancestors(p.dir) : p \in DOMAIN fs}

\* Someone edits a source file while no command runs.
EditSource ==
    /\ Terminated
    /\ edits < MaxEdits
    /\ edits' = edits + 1
    /\ \E p \in FilesUnder(files, assets_source_dir) :
        \E b \in (0..MaxBytes) \ {files[p]} :
            files' = [files EXCEPT ![p] = b]
    /\ UNCHANGED <<dirs, unreadable, manifest, netVars, paramVars, cmdVars,
                   compIdx, pc, imgVars, tasks, metadata, upIdx, watchVars,
                   activeBuilds, runs, sassFailed>>

\* A fresh checkout: the sources, no output root, an empty bucket.
InitWith(imgs, imagesDir, entries, bucketName) ==
    /\ files = SourceTree(imgs, entries)
    /\ dirs = DirsOf(SourceTree(imgs, entries))
              \cup (IF imagesDir THEN Ancestors(source_image_dir) ELSE {})
    /\ unreadable = {}
    /\ manifest = NoManifest
    /\ bucket = << >>
    /\ cors = FALSE
    /\ requests = <<>>
    /\ sass_entrypoints = entries
    /\ static_bucket_name = bucketName
    /\ action = "build"
    /\ watch = FALSE
    /\ components = <<>>
    /\ compIdx = 1
    /\ pc = "idle"
    /\ images = <<>>
    /\ copyIdx = 1
    /\ tasks = <<>>
    /\ metadata = EmptyOutput
    /\ upIdx = 1
    /\ latest_run = 0
    /\ queue = <<>>
    /\ watching = FALSE
    /\ now = 0
    /\ activeBuilds = 0
    /\ runs = 0
    /\ edits = 0
    /\ evlog = <<>>
    /\ sassFailed = FALSE

\* Build, clean and deploy commands over a project with up to two images
\* and up to one entry point, with or without a bucket (the project with
\* two images has none).
Init ==
    \E imgs \in {{}, {LogoPng}, {LogoPng, NestedPng}}, imagesDir \in BOOLEAN,
       entries \in {<<>>, <<MainScss>>}, bucketName \in {NoBucket, "static"} :
        /\ (bucketName = NoBucket \/ Cardinality(imgs) < 2)
        /\ InitWith(imgs, imagesDir, entries, bucketName)

StartCommand ==
    \E a \in Actions, comps \in {<<"assets">>, DefaultComponents} :
        Begin(a, FALSE, comps)

Next ==
    \/ StartCommand
    \/ EditSource
    \/ Dispatch
    \/ ImgCollect
    \/ ImgClean
    \/ ImgCopy
    \/ SassStart
    \/ \E i \in DOMAIN tasks : RunStart(i)
    \/ \E i \in DOMAIN tasks : CompilerExit(i)
    \/ \E i \in DOMAIN tasks : RunRead(i)
    \/ \E i \in DOMAIN tasks : RunCopy(i)
    \/ \E i \in DOMAIN tasks : RunRemove(i)
    \/ SassJoin
    \/ UploadAsset
    \/ WriteMetadata
    \/ SendCors
    \/ CleanAssets

Spec == Init /\ [][Next]_vars

\* ----------------------------------------------------------- the watch loop

\* Run::start, the watch set-up after the first build: latest_run is taken,
\* then the watcher is created on the assets directory (the watch of a
\* missing directory fails, and the unwrap panics).
WatchSetup ==
    /\ pc = "watch_setup"
    /\ latest_run' = InstantNow
    /\ IF assets_source_dir \in dirs
       THEN pc' = "watch_recv" /\ watching' = TRUE
       ELSE Panic /\ UNCHANGED watching
    /\ UNCHANGED <<fsVars, netVars, paramVars, cmdVars, compIdx, imgVars,
                   tasks, metadata, upIdx, queue, now, evlog, activeBuilds,
                   histVars, sassFailed>>

\* The watcher's thread sends a result on the channel: Ok(event) for a
\* change of logo.png's content, or Err.
FsEvent ==
    /\ watching
    /\ pc # "panicked"
    /\ Len(evlog) + Len(queue) < MaxEvents
    /\ \E ok \in BOOLEAN :
        /\ queue' = Append(queue, [at |-> now, ok |-> ok])
        /\ IF ok /\ FileExists(files, LogoPng)
           THEN files' = [files EXCEPT ![LogoPng] = (@ + 1) % (MaxBytes + 1)]
           ELSE UNCHANGED files
    /\ UNCHANGED <<dirs, unreadable, manifest, netVars, paramVars, cmdVars,
                   compIdx, pc, imgVars, tasks, metadata, upIdx, latest_run,
                   watching, now, evlog, activeBuilds, histVars, sassFailed>>

\* A loop that takes results off the channel whatever the thread is doing.
ReceivingAnytime == queue # <<>>

\* rx.recv() returns as soon as the channel holds a result.
Receiving == pc = "watch_recv" /\ queue # <<>>

\* A second passes: while the loop waits on an empty channel, or while a
\* rebuild runs.  The loop's own steps take no time.
Tick ==
    /\ watching
    /\ pc # "panicked"
    /\ ~Receiving
    /\ now < MaxTime
    /\ now' = now + 1
    /\ UNCHANGED <<fsVars, netVars, paramVars, cmdVars, compIdx, pc, imgVars,
                   tasks, metadata, upIdx, latest_run, queue, watching, evlog,
                   activeBuilds, histVars, sassFailed>>

\* A window that ends one second early.
DebounceElapsedInclusive == now - latest_run >= Debounce

\* latest_run.elapsed() > debounce
DebounceElapsed == now - latest_run > Debounce

\* One turn of `while let Ok(res) = rx.recv()`: an Ok(event) outside the
\* debounce window runs build_assets, anything else is dropped.
HandleEvent ==
    /\ Receiving
    /\ queue' = Tail(queue)
    /\ LET res == Head(queue)
           rebuild == res.ok /\ DebounceElapsed
       IN  /\ evlog' = Append(evlog, [at |-> res.at, ok |-> res.ok,
                                      received |-> now, last |-> latest_run,
                                      rebuild |-> rebuild])
           /\ IF rebuild
              THEN /\ pc' = "img_collect"
                   /\ activeBuilds' = activeBuilds + 1
                   /\ tasks' = <<>>
                   /\ sassFailed' = FALSE
              ELSE UNCHANGED <<pc, activeBuilds, tasks, sassFailed>>
    /\ UNCHANGED <<fsVars, netVars, paramVars, cmdVars, compIdx, imgVars,
                   metadata, upIdx, latest_run, watching, now, histVars>>

\* `build --watch -c assets` in a project with one image and one entry point
WatchInit == InitWith({LogoPng}, TRUE, <<MainScss>>, NoBucket)

WatchStart == runs = 0 /\ Begin("build", TRUE, <<"assets">>)

WatchNext ==
    \/ WatchStart
    \/ Dispatch
    \/ ImgCollect
    \/ ImgClean
    \/ ImgCopy
    \/ SassStart
    \/ \E i \in DOMAIN tasks : RunStart(i)
    \/ \E i \in DOMAIN tasks : CompilerExit(i)
    \/ \E i \in DOMAIN tasks : RunRead(i)
    \/ \E i \in DOMAIN tasks : RunCopy(i)
    \/ \E i \in DOMAIN tasks : RunRemove(i)
    \/ SassJoin
    \/ WriteMetadata
    \/ WatchSetup
    \/ FsEvent
    \/ Tick
    \/ HandleEvent

WatchSpec == WatchInit /\ [][WatchNext]_vars

\* ------------------------------------------------- one build of stylesheets

\* `build -c assets` over two or three entry points: one of them missing,
\* two in different folders, or two that share their intermediate file.
SassInit ==
    \E imgs \in {{}, {LogoPng}},
       entries \in {<<MissingScss, MainScss>>, <<MainScss, PrintScss>>,
                    <<MainScss, MainSass>>,
                    <<MainScss, MissingScss, PrintScss>>} :
        InitWith(imgs, TRUE, entries, NoBucket)

BuildOnce == runs = 0 /\ Begin("build", FALSE, <<"assets">>)

SassNext ==
    \/ BuildOnce
    \/ Dispatch
    \/ ImgCollect
    \/ ImgClean
    \/ ImgCopy
    \/ SassStart
    \/ \E i \in DOMAIN tasks : RunStart(i)
    \/ \E i \in DOMAIN tasks : CompilerExit(i)
    \/ \E i \in DOMAIN tasks : RunRead(i)
    \/ \E i \in DOMAIN tasks : RunCopy(i)
    \/ \E i \in DOMAIN tasks : RunRemove(i)
    \/ SassJoin
    \/ WriteMetadata

SassSpec == SassInit /\ [][SassNext]_vars

\* ------------------------------------------------------ builds and deploys

\* A project with a bucket, one image, and main.scss next to main.sass.
DeployInit == InitWith({LogoPng}, TRUE, <<MainScss, MainSass>>, "static")

BuildOrDeploy == \E a \in {"build", "deploy"} : Begin(a, FALSE, <<"assets">>)

DeployNext ==
    \/ BuildOrDeploy
    \/ Dispatch
    \/ ImgCollect
    \/ ImgClean
    \/ ImgCopy
    \/ SassStart
    \/ \E i \in DOMAIN tasks : RunStart(i)
    \/ \E i \in DOMAIN tasks : CompilerExit(i)
    \/ \E i \in DOMAIN tasks : RunRead(i)
    \/ \E i \in DOMAIN tasks : RunCopy(i)
    \/ \E i \in DOMAIN tasks : RunRemove(i)
    \/ SassJoin
    \/ UploadAsset
    \/ WriteMetadata
    \/ SendCors

DeploySpec == DeployInit /\ [][DeployNext]_vars

\* ------------------------------------------------- a build over bad files

\* A source image loses its read permission, before or while a command runs.
RevokeRead ==
    /\ pc # "panicked"
    /\ edits < MaxEdits
    /\ edits' = edits + 1
    /\ \E p \in FilesUnder(files, source_image_dir) \ unreadable :
        unreadable' = unreadable \cup {p}
    /\ UNCHANGED <<files, dirs, manifest, netVars, paramVars, cmdVars, compIdx,
                   pc, imgVars, tasks, metadata, upIdx, watchVars,
                   activeBuilds, runs, sassFailed>>

\* `build -c assets` over two images and one entry point.
FaultInit == InitWith({LogoPng, NestedPng}, TRUE, <<MainScss>>, NoBucket)

FaultNext ==
    \/ BuildOnce
    \/ RevokeRead
    \/ Dispatch
    \/ ImgCollect
    \/ ImgClean
    \/ ImgCopy
    \/ SassStart
    \/ \E i \in DOMAIN tasks : RunStart(i)
    \/ \E i \in DOMAIN tasks : CompilerExit(i)
    \/ \E i \in DOMAIN tasks : RunRead(i)
    \/ \E i \in DOMAIN tasks : RunCopy(i)
    \/ \E i \in DOMAIN tasks : RunRemove(i)
    \/ SassJoin
    \/ WriteMetadata

FaultSpec == FaultInit /\ [][FaultNext]_vars

\* Builds and deploys over image directories that hold logo.png, a file
\* without extension or a file of unknown type, alone or next to logo.png,
\* or two files whose names are not valid UTF-8.
NamingInit ==
    \E imgs \in {{LogoPng}, {Licence}, {LogoPng, Licence}, {BackupPng},
                 {LogoPng, BackupPng}, {IconFF, IconFE}},
       bucketName \in {NoBucket, "static"} :
        InitWith(imgs, TRUE, <<MainScss>>, bucketName)

NamingNext ==
    \/ BuildOrDeploy
    \/ Dispatch
    \/ ImgCollect
    \/ ImgClean
    \/ ImgCopy
    \/ SassStart
    \/ \E i \in DOMAIN tasks : RunStart(i)
    \/ \E i \in DOMAIN tasks : CompilerExit(i)
    \/ \E i \in DOMAIN tasks : RunRead(i)
    \/ \E i \in DOMAIN tasks : RunCopy(i)
    \/ \E i \in DOMAIN tasks : RunRemove(i)
    \/ SassJoin
    \/ UploadAsset
    \/ WriteMetadata
    \/ SendCors

NamingSpec == NamingInit /\ [][NamingNext]_vars

\* The --components values of a command line
RawComponents ==
    {<<>>, <<"assets">>, <<"Assets">>, <<"backend">>, <<"frontend">>, <<"docs">>,
     <<"assets", "backend">>, <<"frontend", "assets">>, <<"assets", "docs", "assets">>}

ComponentInit == InitWith({LogoPng}, TRUE, <<>>, NoBucket)

\* Any command with any --components
StartWithComponents ==
    \E a \in Actions, raw \in RawComponents : Begin(a, FALSE, RunComponents(raw))

ComponentNext ==
    \/ StartWithComponents
    \/ Dispatch
    \/ ImgCollect
    \/ ImgClean
    \/ ImgCopy
    \/ SassStart
    \/ SassJoin
    \/ WriteMetadata
    \/ CleanAssets

ComponentSpec == ComponentInit /\ [][ComponentNext]_vars

\* Build, clean and deploy commands, and `build --watch` as the first
\* command of a fresh checkout without a bucket, over one image and one
\* entry point.
FrameInit ==
    \E bucketName \in {NoBucket, "static"} :
        InitWith({LogoPng}, TRUE, <<MainScss>>, bucketName)

FrameWatchStart == static_bucket_name = NoBucket /\ edits = 0 /\ WatchStart

FrameNext ==
    \/ StartCommand
    \/ FrameWatchStart
    \/ EditSource
    \/ Dispatch
    \/ ImgCollect
    \/ ImgClean
    \/ ImgCopy
    \/ SassStart
    \/ \E i \in DOMAIN tasks : RunStart(i)
    \/ \E i \in DOMAIN tasks : CompilerExit(i)
    \/ \E i \in DOMAIN tasks : RunRead(i)
    \/ \E i \in DOMAIN tasks : RunCopy(i)
    \/ \E i \in DOMAIN tasks : RunRemove(i)
    \/ SassJoin
    \/ UploadAsset
    \/ WriteMetadata
    \/ SendCors
    \/ CleanAssets
    \/ WatchSetup
    \/ FsEvent
    \/ Tick
    \/ HandleEvent

FrameSpec == FrameInit /\ [][FrameNext]_vars

\* ------------------------------------------------------------------- properties

\* The AssetsOutput that dist/assets.json decodes to
OnDisk == Deserialize(manifest)

\* sub occurs in s as a run of consecutive elements.
Contains(s, sub) ==
    \E k \in 0..(Len(s) - Len(sub)) : SubSeq(s, k + 1, k + Len(sub)) = sub

\* build_assets has just returned to Run::start.
BuildReturned ==
    /\ action = "build"
    /\ \/ pc = "dispatch" /\ compIdx > 1
       \/ pc = "watch_setup"

\* Every file below assets/images has a record in the manifest whose
\* processed path carries the hex of the hash of the file's bytes, and the
\* file at dist/<processed path> holds those bytes.
ImagesFaithful ==
    \A p \in FilesUnder(files, source_image_dir) :
        \E i \in DOMAIN OnDisk.images :
            LET r == OnDisk.images[i]
                out == Join(dist_dir, r.processed_relative_path)
            IN  /\ r.source_path = p
                /\ Contains(r.processed_relative_path.file,
                            FormatHex(SeaHash(files[p])))
                /\ FileExists(files, out)
                /\ files[out] = files[p]

\* C1: when a build has returned (every image was read and copied), every
\* regular file below the image source directory has a manifest record whose
\* processed_relative_path embeds the hex hash of the file's bytes, and the
\* file at <dist_root>/<processed_relative_path> holds exactly those bytes.
C1_ImagesInManifest == BuildReturned => ImagesFaithful

\* A build has returned over two images of different contents, one of them
\* in a nested directory.
C1_Witness ==
    /\ BuildReturned
    /\ FilesUnder(files, source_image_dir) = {LogoPng, NestedPng}
    /\ files[LogoPng] # files[NestedPng]
    /\ Len(OnDisk.images) = 2

\* C3: every run of build whose two pipelines have returned writes the
\* manifest, holding exactly that run's sequences, whatever the output root
\* held before.
C3_ManifestAlwaysWritten ==
    [][(action = "build" /\ pc = "write") => manifest' = Serialize(metadata)]_vars

\* C4: when the stylesheet pipeline has failed at pipeline level (the
\* compiler was not resolved), the command ends normally and the manifest
\* holds the image records and an empty stylesheet sequence.
C4_EmptyResultAndManifest ==
    (sassFailed /\ Terminated) =>
        /\ pc = "exited"
        /\ manifest = Serialize([images |-> images, sass |-> <<>>])

\* C2: over builds and deploys, every request of the deploy stage is a PUT,
\* the keys of the bucket only grow, and an object already stored under a
\* key is never replaced by a different content.
C2_UploadsAdditive ==
    [][/\ \A i \in DOMAIN requests' : requests'[i].method = "PUT"
       /\ DOMAIN bucket \subseteq DOMAIN bucket'
       /\ \A k \in DOMAIN bucket : bucket'[k] = bucket[k]]_vars

\* The step takes a result off the channel.
Received == Receiving /\ queue' = Tail(queue)

\* C5: in the watch loop an Ok(event) taken off the channel starts a build
\* if and only if more than Debounce seconds have passed since latest_run;
\* latest_run is set to the current time at watch start and after a
\* triggered build, and changes at no other step; a result that starts no
\* build is dropped and leaves nothing behind but the shorter channel, and
\* a build starts in the loop only by such a step.
C5_Debounce ==
    [][/\ (Received /\ Head(queue).ok) =>
            (pc' = "img_collect" <=> now - latest_run > Debounce)
       /\ (Received /\ pc' = pc) =>
            UNCHANGED <<fsVars, netVars, imgVars, tasks, metadata, latest_run,
                        now, activeBuilds>>
       /\ (watching /\ activeBuilds' > activeBuilds) =>
            /\ Received
            /\ Head(queue).ok
            /\ now - latest_run > Debounce
       /\ (pc = "watch_setup" /\ pc' = "watch_recv") => latest_run' = now
       /\ (watching /\ pc = "write" /\ pc' = "watch_recv") => latest_run' = now
       /\ latest_run' # latest_run =>
            \/ pc = "watch_setup"
            \/ watching /\ pc = "write" /\ pc' = "watch_recv"]_vars

\* An event started a rebuild, the rebuild ended and reset latest_run, and
\* a later event, received inside the window, was dropped.
C5_Witness ==
    /\ pc = "watch_recv"
    /\ \E i, j \in DOMAIN evlog :
        /\ i < j
        /\ evlog[i].rebuild
        /\ evlog[j].ok /\ ~evlog[j].rebuild
        /\ evlog[j].last > evlog[i].last
        /\ evlog[j].received > evlog[j].last

\* The loop waits on an empty channel: every result sent so far was handled.
Quiescent == watching /\ pc = "watch_recv" /\ queue = <<>>

\* The number of rebuilds started by the results i..j taken off the channel.
Rebuilds(i, j) == Cardinality({k \in i..j : evlog[k].rebuild})

\* Results i..j are a burst: change events that arrived within Debounce
\* seconds of each other, with more than Debounce seconds of silence before
\* and after them.
IsBurst(i, j) ==
    /\ i <= j
    /\ \A k \in i..j : evlog[k].ok
    /\ evlog[j].at - evlog[i].at <= Debounce
    /\ i > 1 => evlog[i].at - evlog[i - 1].at > Debounce
    /\ j < Len(evlog) => evlog[j + 1].at - evlog[j].at > Debounce

\* An event that arrives once the window that follows latest_run is over
\* starts a rebuild.
LateEventRebuilds ==
    \A k \in DOMAIN evlog :
        (evlog[k].ok /\ evlog[k].at - evlog[k].last > Debounce) => evlog[k].rebuild

\* C6, as stated: once the loop has handled everything, every burst of
\* events that arrived within one debounce window has produced exactly one
\* rebuild, and an event arriving after the window has produced a rebuild.
C6_BurstExactlyOne ==
    Quiescent =>
        /\ \A i, j \in DOMAIN evlog : IsBurst(i, j) => Rebuilds(i, j) = 1
        /\ LateEventRebuilds

\* C6, amended: a burst produces at most one rebuild: one when some event of
\* it is received more than Debounce seconds after latest_run (the watch
\* start, or the end of the last rebuild), none when all of them are
\* received inside that window or while a rebuild runs; and an event
\* arriving after the window has produced a rebuild.
C6_BurstAtMostOne ==
    Quiescent =>
        /\ \A i, j \in DOMAIN evlog :
            IsBurst(i, j) =>
                Rebuilds(i, j) =
                    IF \E k \in i..j : evlog[k].received - evlog[k].last > Debounce
                    THEN 1 ELSE 0
        /\ LateEventRebuilds

\* A burst of two events produced one rebuild and one dropped event, and an
\* event after the window produced a second rebuild.
C6_Witness ==
    /\ Quiescent
    /\ Len(evlog) = 3
    /\ IsBurst(1, 2) /\ Rebuilds(1, 2) = 1
    /\ IsBurst(3, 3) /\ evlog[3].rebuild

\* C7: in watch mode at most one build runs at any time, whatever the
\* channel holds.
C7_OneBuildAtATime == watch => activeBuilds <= 1

\* A change event waits on the channel while a rebuild copies the images.
C7_Witness ==
    /\ watching
    /\ activeBuilds = 1
    /\ pc = "img_copy"
    /\ \E k \in DOMAIN queue : queue[k].ok

\* The records of the manifest for the entry point at position i.
RecordsOf(i) ==
    {k \in DOMAIN OnDisk.sass :
        OnDisk.sass[k].source_path = OriginalPath(sass_entrypoints[i])}

\* Another entry point with a source shares the intermediate file of entry i.
SharesScratch(i) ==
    \E j \in DOMAIN sass_entrypoints :
        /\ j # i
        /\ PrehashPath(sass_entrypoints[j]) = PrehashPath(sass_entrypoints[i])
        /\ FileExists(files, OriginalPath(sass_entrypoints[j]))

\* The entry point at position i is in the manifest under the hash of its
\* compiled source, and its CSS is in place under dist.
InPlace(i) ==
    \E k \in RecordsOf(i) :
        LET r == OnDisk.sass[k]
            src == OriginalPath(sass_entrypoints[i])
            out == Join(dist_dir, r.processed_relative_path)
        IN  /\ Contains(r.processed_relative_path.file,
                        FormatHex(SeaHash(Compile(files[src]))))
            /\ FileExists(files, out)
            /\ files[out] = Compile(files[src])

Returned(i) ==
    {k \in DOMAIN metadata.sass :
        metadata.sass[k].source_path = OriginalPath(sass_entrypoints[i])}

\* sass::process has returned Ok to build_assets_inner.
StageReturned == pc = "write" /\ ~sassFailed /\ Len(tasks) = Len(sass_entrypoints)

C10_JoinAll ==
    [][/\ (pc = "sass_start" /\ pc' = "sass_join") =>
            /\ Len(tasks') = Len(sass_entrypoints)
            /\ \A i \in DOMAIN tasks' : tasks'[i] = NewTask
       /\ (\E i \in DOMAIN tasks : tasks[i].pc \in {"read", "copied", "ok", "panic"})
            => AllPolled
       /\ \A i \in DOMAIN tasks :
            (pc = "sass_join" /\ pc' = "sass_join"
                /\ tasks[i].pc # "err" /\ tasks'[i].pc = "err") =>
                /\ tasks[i].pc \in {"new", "exited"}
                /\ \A j \in DOMAIN tasks : j # i => tasks'[j] = tasks[j]
                /\ UNCHANGED <<files, dirs>>
       /\ (pc = "sass_join" /\ pc' \notin {"sass_join", "panicked"}) =>
            /\ \A i \in DOMAIN tasks : tasks[i].pc \in {"ok", "err"}
            /\ tasks' = tasks]_vars

\* One task has ended with an error while a sibling is still running, and
\* nothing has been collected yet.
C10_Witness ==
    /\ pc = "sass_join"
    /\ Len(tasks) = 3
    /\ \E i, j \in DOMAIN tasks :
        /\ tasks[i].pc = "err" /\ tasks[i].status = FALSE
        /\ FileExists(files, OriginalPath(sass_entrypoints[i]))
        /\ tasks[j].pc = "read"

\* The source paths of the records the image stage holds.
Recorded == {images[i].source_path : i \in DOMAIN images}

\* C11: the walk of the image stage always completes, with a record for
\* every regular file below assets/images that can be read and none for a
\* file that cannot, for a directory or for an entry that cannot be
\* enumerated.
C11_UnreadableSkipped ==
    [][(pc = "img_collect" /\ pc' # pc) =>
            /\ pc' = "img_clean"
            /\ Recorded' = FilesUnder(files, source_image_dir) \ unreadable]_vars

\* C12: the copy loop of the image stage always completes: a copy that
\* fails leaves the loop running over the remaining images, and at its end
\* every image that can be copied is under dist.
C12_CopyFailureSkipped ==
    [][pc = "img_copy" =>
            /\ pc' \in {"img_copy", "sass_start"}
            /\ pc' = "sass_start" =>
                 \A i \in DOMAIN images :
                    ~CopyFails(files, unreadable, images[i].source_path) =>
                        FileExists(files', Join(dist_dir, images[i].processed_relative_path))]_vars

\* The deploy's uploads are over: upload_assets has returned.
Uploaded == action = "deploy" /\ HasBucket /\ pc \in {"write", "cors"}

\* The object requests of the running command, in the order sent
ObjectPuts == SelectSeq(requests, LAMBDA r : r.op = "PutObject")

\* The upload of the i-th request did not reach the bucket.
UploadFailed(i) == requests[i].key[1] \notin DOMAIN bucket

\* C13: an upload that fails is skipped and the deploy still attempts the
\* upload of every remaining record: once upload_assets has returned, one
\* request was sent for each record, in order, whether or not the object of
\* an earlier request reached the bucket.
C13_UploadFailureSkipped ==
    Uploaded =>
        /\ Len(requests) = Len(Items(metadata))
        /\ \A i \in DOMAIN requests :
              requests[i].key = <<Items(metadata)[i].processed_relative_path>>

\* The first upload failed and two more records were still attempted.
C13_Witness ==
    /\ Uploaded
    /\ Len(requests) = 3
    /\ UploadFailed(1)

\* C14: a deploy without a configured bucket sends nothing: no object is
\* uploaded and no CORS policy is pushed, at any point of the command.
C14_NoBucketNoRequest ==
    (action = "deploy" /\ static_bucket_name = NoBucket) =>
        /\ requests = <<>>
        /\ pc \notin {"upload", "cors"}
        /\ ~cors

\* A deploy without bucket has built records and run to its end.
C14_Witness ==
    /\ action = "deploy"
    /\ static_bucket_name = NoBucket
    /\ pc = "exited"
    /\ Items(metadata) # <<>>

\* The deploy command has run to its end without panic, with a bucket.
Deployed == action = "deploy" /\ static_bucket_name # NoBucket /\ pc = "exited"

\* The records of dist/assets.json, images first
ManifestRecords == OnDisk.images \o OnDisk.sass

\* C15: a deploy with a bucket that ends without fatal error has sent exactly
\* one PUT object per record of the manifest it wrote, the images first and
\* then the stylesheets in the manifest's order, each with the record's
\* processed_relative_path as key, the ACL public-read, and the bytes of the
\* file at that path under dist.
C15_OnePutPerRecord ==
    Deployed =>
        /\ manifest.exists
        /\ Len(ObjectPuts) = Len(ManifestRecords)
        /\ \A i \in DOMAIN ObjectPuts :
              LET key == ManifestRecords[i].processed_relative_path
              IN  /\ FileExists(files, Join(dist_dir, key))
                  /\ ObjectPuts[i].method = "PUT"
                  /\ ObjectPuts[i].key = <<key>>
                  /\ ObjectPuts[i].acl = "public-read"
                  /\ ObjectPuts[i].body = <<files[Join(dist_dir, key)]>>

\* A deploy has ended with an image and a stylesheet in the manifest.
C15_Witness ==
    /\ Deployed
    /\ OnDisk.images # <<>>
    /\ OnDisk.sass # <<>>

\* The CORS requests of the running command
CorsPushes == SelectSeq(requests, LAMBDA r : r.op = "PutBucketCors")

\* C16: on every deploy with a bucket the CORS policy is pushed once, and
\* only after every upload has been attempted, whether or not uploads failed:
\* nothing is pushed while the assets are deployed, the deploy goes from the attempted uploads to the
\* push, the push follows one object request per record, and whatever its
\* answer the command carries on as after a success.
C16_CorsOnceAfterUploads ==
    [][(action = "deploy" /\ static_bucket_name # NoBucket) =>
            /\ CorsPushes # <<>> => (compIdx > 1 /\ pc \in {"dispatch", "exited", "panicked"})
            /\ pc = "write" => pc' = "cors"
            /\ pc = "cors" =>
                    /\ Len(ObjectPuts) = Len(Items(metadata))
                    /\ requests' = Append(ObjectPuts, PutBucketCors)
                    /\ NextComponent]_vars

\* The compiler has answered every entry point of the running build with
\* status 0.
CompiledAll ==
    /\ Len(tasks) = Len(sass_entrypoints)
    /\ \A i \in DOMAIN tasks : tasks[i].status

\* The manifest on disk is that of a build whose compiler did the same, and
\* no source has changed since.
SameSourcesBuilt ==
    /\ manifest.exists
    /\ Len(OnDisk.sass) = Len(sass_entrypoints)
    /\ edits = 0

\* The file name of record r carries the fingerprint of the bytes found at
\* its processed path under dist.
NamesItsBytes(fs, r) ==
    LET out == Join(dist_dir, r.processed_relative_path)
    IN  /\ FileExists(fs, out)
        /\ out.file = HashedName(FileStem(r.logical_path.file), SeaHash(fs[out]),
                                 Extension(out.file))

\* C17: a build over the sources of the build before it, with the compiler
\* answering as it did then, writes the same set of records (the processed
\* paths carry the hashes and the output names), and each name is that of the
\* bytes of its output file.
C17_RebuildSameRecords ==
    [][(pc = "write" /\ pc' # "panicked" /\ SameSourcesBuilt /\ CompiledAll) =>
            /\ Range(OnDisk'.images) = Range(OnDisk.images)
            /\ Range(OnDisk'.sass) = Range(OnDisk.sass)
            /\ \A r \in Range(OnDisk'.images) \cup Range(OnDisk'.sass) :
                  NamesItsBytes(files', r)]_vars

\* The AssetsOutput md without its hashes
Hashless(md) ==
    [images |-> [i \in DOMAIN md.images |-> [md.images[i] EXCEPT !.hash = [k \in 1..16 |-> 0]]],
     sass |-> [i \in DOMAIN md.sass |-> [md.sass[i] EXCEPT !.hash = [k \in 1..16 |-> 0]]]]

\* The command has written the AssetsOutput it built.
Written ==
    /\ action \in {"build", "deploy"}
    /\ compIdx > 1
    /\ pc \in {"dispatch", "exited"}

NameCutAt(name, d, hash) ==
    SubSeq(name, 1, d - 1) \o <<"-">> \o FormatHex(hash) \o <<".">>
        \o SubSeq(name, d + 1, Len(name))

\* The processed path of r is its logical path with the file name cut at
\* its last dot, and no other dot, to take the hash.
HashInserted(r) ==
    LET name == r.logical_path.file
    IN  /\ r.processed_relative_path.dir = r.logical_path.dir
        /\ \E d \in DOMAIN name :
              /\ name[d] = "."
              /\ \A i \in (d + 1)..Len(name) : name[i] # "."
              /\ r.processed_relative_path.file = NameCutAt(name, d, r.hash)

\* images/logo.png and the hash 1a2b3c4d5e6f7890
ExampleLogo == [dir |-> <<"images">>, file |-> <<"l","o","g","o",".","p","n","g">>]

ExampleHash == <<1, 10, 2, 11, 3, 12, 4, 13, 5, 14, 6, 15, 7, 8, 9, 0>>

HexDigits(r) ==
    Len(r.processed_relative_path.file) - Len(FileStem(r.logical_path.file))
        - Len(Extension(r.processed_relative_path.file)) - 2

\* C20: the hash stands in the file name as hexadecimal of fixed width: the
\* name of every record, whatever its hash and its leading digits, has the
\* sixteen hex digits of a 64-bit value.
C20_FixedWidthHex ==
    \A i \in DOMAIN Items(metadata) : HexDigits(Items(metadata)[i]) = 16

\* C21: naming has no error condition: the walk of the image stage ends with
\* a record, and so a processed path, for every regular file below
\* assets/images, whatever the file's name.
C21_NamingNeverFails ==
    [][pc = "img_collect" =>
            /\ pc' # "panicked"
            /\ \A p \in FilesUnder(files, source_image_dir) :
                  \E i \in DOMAIN images' : images'[i].source_path = p]_vars

\* The files of the first n records of the image stage, under dist
OutputsOf(recs, n) ==
    {Join(dist_dir, recs[i].processed_relative_path) : i \in 1..n}

\* C22: once the image stage has completed, dist/images holds exactly the
\* files of this run's records; while it copies, exactly those copied so
\* far: what an earlier build left there is gone before the first copy.
C22_ImagesDirExact ==
    /\ pc = "img_copy" =>
         FilesUnder(files, dist_image_dir) = OutputsOf(images, copyIdx - 1)
    /\ pc = "sass_start" =>
         FilesUnder(files, dist_image_dir) = OutputsOf(images, Len(images))

\* The image stage of a later build has completed, and a file that the
\* manifest of the build before still names is no longer there.
C22_Witness ==
    /\ pc = "sass_start"
    /\ images # <<>>
    /\ \E i \in DOMAIN OnDisk.images :
          ~FileExists(files, Join(dist_dir, OnDisk.images[i].processed_relative_path))

\* C23: every run of the stylesheet stage clears the scratch directory and
\* dist/css before an entry point is compiled, and when the stage returns,
\* with any result, dist/css holds only outputs of this run.
C23_CssDirOnlyThisRun ==
    [][/\ (pc = "sass_start" /\ pc' = "sass_join") =>
            /\ FilesUnder(files', intermediate_dir) = {}
            /\ FilesUnder(files', dist_sass_dir) = {}
       /\ (pc \in {"sass_start", "sass_join"} /\ pc' \in {"write", "upload"}) =>
            FilesUnder(files', dist_sass_dir)
                \subseteq OutputsOf(metadata'.sass, Len(metadata'.sass))]_vars

\* C24: a backend or frontend component surfaces "not implemented": the
\* command panics when its turn comes, for build, clean and deploy, and no
\* command with such a component ever exits normally.
C24_NotImplementedSurfaces ==
    [][/\ (pc = "dispatch" /\ compIdx <= Len(components)
              /\ components[compIdx] \in {"backend", "frontend"}) =>
            pc' = "panicked"
       /\ pc' = "exited" =>
            \A i \in DOMAIN components : components[i] \notin {"backend", "frontend"}]_vars

\* A command whose second component is the backend has done the assets
\* and panicked at the backend.
C24_Witness ==
    /\ components = <<"assets", "backend">>
    /\ compIdx = 2
    /\ pc = "panicked"

\* The positions, in upload order, of the records whose file has no known
\* MIME type
Unguessable == {i \in DOMAIN Items(metadata) : Items(metadata)[i].source_path = BackupPng}

\* C25: a record whose MIME type cannot be guessed is fatal to a deploy with
\* a bucket: no request is sent for it or for a record after it, and the
\* command never gets past the upload loop, so no CORS policy is pushed.
C25_UnknownMimeFatal ==
    (action = "deploy" /\ static_bucket_name # NoBucket) =>
        \A k \in Unguessable :
            /\ Len(requests) < k
            /\ CorsPushes = <<>>
            /\ pc \in {"upload", "panicked"}

\* logo.png was uploaded, the deploy died at logo.png~, and the stylesheet
\* after it was never sent.
C25_Witness ==
    /\ action = "deploy"
    /\ pc = "panicked"
    /\ Len(Items(metadata)) = 3
    /\ Unguessable = {2}
    /\ Len(requests) = 1

\* The task of entry point i has returned the record of its own compiled
\* output, and the file at the record's processed path holds those bytes.
OwnOutput(i) ==
    LET own == Compile(files[OriginalPath(sass_entrypoints[i])])
        r == tasks[i].rec[1]
        out == Join(dist_dir, r.processed_relative_path)
    IN  /\ r.hash = SeaHash(own)
        /\ r = SassMetadata(sass_entrypoints[i], SeaHash(own))
        /\ FileExists(files, out)
        /\ files[out] = own

\* C26: for every list of entry points and every interleaving of their
\* tasks, a task that returns a record while the stage runs returns that
\* of its own compiled output, in place under dist, and no task panics over
\* its intermediate file.
C26_TasksIsolated ==
    \A i \in DOMAIN tasks :
        /\ tasks[i].pc # "panic"
        /\ (pc = "sass_join" /\ tasks[i].pc = "ok") => OwnOutput(i)

\* The file name carries the hex of the hash of these bytes, between a "-"
\* and a ".".
NamedAfter(name, bytes) ==
    LET tag == <<"-">> \o FormatHex(SeaHash(bytes)) \o <<".">>
    IN  \E a \in DOMAIN name :
            /\ a + Len(tag) - 1 <= Len(name)
            /\ SubSeq(name, a, a + Len(tag) - 1) = tag

\* C27: every file in the dist images directory holds bytes whose hash is
\* the hash in its name, also when a source image changes between the read
\* that is hashed and the later copy.
C27_ImageNameMatchesBytes ==
    \A p \in FilesUnder(files, dist_image_dir) : NamedAfter(p.file, files[p])

\* C28: when a build, clean or deploy command has completed, every record of
\* the manifest file on disk names a file that exists under the output root.
C28_ManifestNamesFiles ==
    pc = "exited" =>
        \A i \in DOMAIN ManifestRecords :
            FileExists(files, Join(dist_dir, ManifestRecords[i].processed_relative_path))

\* The steps of the assets arm of Run::start
InAssets == pc \in {"img_collect", "img_clean", "img_copy", "sass_start",
                    "sass_join", "write", "upload", "cors", "clean"}

\* Every component before position k of the running command is the assets.
AssetsBefore(k) == \A j \in 1..(k - 1) : components[j] = "assets"

\* C29: the components are processed in the order of the list, one
\* position at a time, and a component that is not implemented stops the
\* run before any later one; without --components the list is backend then
\* assets, so that build, clean and deploy stop at position 1 and never
\* reach the assets.
C29_ListOrderStopsAtUnimplemented ==
    /\ [](/\ InAssets =>
                /\ compIdx <= Len(components)
                /\ components[compIdx] = "assets"
                /\ AssetsBefore(compIdx)
          /\ pc = "panicked" =>
                /\ compIdx <= Len(components)
                /\ components[compIdx] # "assets"
                /\ AssetsBefore(compIdx)
          /\ components = RunComponents(<<>>) =>
                /\ components = <<"backend", "assets">>
                /\ compIdx = 1
                /\ pc \in {"dispatch", "panicked"})
    /\ [][/\ compIdx' # compIdx =>
                \/ compIdx' = compIdx + 1 /\ InAssets /\ pc' = "dispatch"
                \/ compIdx' = 1 /\ runs' = runs + 1
          /\ pc = "panicked" => (runs' = runs + 1 /\ pc' = "dispatch")]_vars

C29_Witness ==
    /\ components = <<"backend", "assets">>
    /\ action = "deploy"
    /\ pc = "panicked"
    /\ compIdx = 1
    /\ FilesUnder(files, dist_dir) = {}

\* The directories the pipeline owns: dist/images, dist/css and the
\* stylesheet scratch directory.
OwnedDirs == {dist_image_dir, dist_sass_dir, intermediate_dir}

\* The files whose presence or content differs between fs and gs
ChangedFiles(fs, gs) ==
    {p \in DOMAIN fs \cup DOMAIN gs :
        ~(p \in DOMAIN fs /\ p \in DOMAIN gs /\ fs[p] = gs[p])}

\* The directories present in only one of ds and es
ChangedDirs(ds, es) == (ds \ es) \cup (es \ ds)

\* A step of someone else: an edit between commands, or the change that
\* the watcher reports.
SomeoneElse == edits' # edits \/ Len(queue') > Len(queue)

\* C30: no step of build, clean, deploy or the watch loop creates, changes
\* or removes a file or directory under the asset source root; the files
\* it writes or removes are under dist/images, dist/css or the scratch
\* directory (the manifest apart), and so are the directories, up to the
\* parents it creates for them.
C30_SourcesUntouched ==
    [][~SomeoneElse =>
          /\ \A p \in ChangedFiles(files, files') :
                /\ ~IsPrefix(assets_source_dir, p.dir)
                /\ \E o \in OwnedDirs : IsPrefix(o, p.dir)
          /\ \A d \in ChangedDirs(dirs, dirs') :
                /\ ~IsPrefix(assets_source_dir, d)
                /\ \E o \in OwnedDirs : IsPrefix(o, d) \/ (d \in dirs' /\ IsPrefix(d, o))]_vars

C30_Witness ==
    /\ watching
    /\ Len(evlog) > 0 /\ evlog[Len(evlog)].rebuild
    /\ pc = "watch_recv"
    /\ FilesUnder(files, dist_image_dir) # {}
    /\ FilesUnder(files, dist_sass_dir) # {}
    /\ manifest.exists
    /\ FilesUnder(files, assets_source_dir) = {LogoPng, OriginalPath(MainScss)}

\* C31: within one run of the image stage, records of different logical
\* paths have different processed paths, and once the copies are done the
\* dist images directory holds as many files as there are records.
C31_ProcessedPathsDistinct ==
    /\ \A i, j \in DOMAIN images :
          images[i].logical_path # images[j].logical_path =>
              images[i].processed_relative_path # images[j].processed_relative_path
    /\ pc = "sass_start" =>
          Cardinality(FilesUnder(files, dist_image_dir)) = Len(images)

====
